---- MODULE Spec2Model ----
(***************************************************************************)
(* Model of the Flyway-backed migration Lambda (src/lambda/index.py) and   *)
(* of the placeholder Lambda (src/lambda/minimal_index.py).                *)
(*                                                                         *)
(* A migration file "V<n>__<description>.sql" is modelled by its version   *)
(* number n; a file's content is an opaque token.  The runtime's /tmp      *)
(* directory (migrations directory, Flyway installation) outlives one      *)
(* invocation and is lost on a cold start.  The database holds Flyway's    *)
(* schema history table (the Ledger) and the schema objects the applied    *)
(* scripts created.                                                        *)
(***************************************************************************)
EXTENDS Integers, Sequences, FiniteSets, TLC

\* Highest migration version that occurs in a bundle.
MaxVersion == 2
\* Largest number of entries in one bundle archive.
MaxEntries == 2

Versions == 1..MaxVersion
Folders == {"a/", "b/"}
Contents == {"a", "b"}
NoFile == "none"
JobIds == {"job-1"}
NoJob == "None"

\* The entries a bundle archive is built from: .sql files (the file stored
\* under folder f holds content f's token, so two folders give one basename
\* two contents), one file that is not a .sql file, and one directory entry.
SqlEntries ==
  { [folder |-> f, base |-> v, suffix |-> ".sql", is_dir |-> FALSE,
     content |-> IF f = "a/" THEN "a" ELSE "b"] : f \in Folders, v \in Versions }

OtherEntries ==
  { [folder |-> "a/", base |-> 1, suffix |-> ".txt", is_dir |-> FALSE, content |-> "a"],
    [folder |-> "a/", base |-> 1, suffix |-> "/", is_dir |-> TRUE, content |-> "a"] }

ArchiveEntries == SqlEntries \cup OtherEntries

Archives == UNION { [1..n -> ArchiveEntries] : n \in 0..MaxEntries }

\* The bundles the pipeline delivers to the handler: .sql files only, of which
\* the first version exists in two revisions (a script edited after release).
BundleEntries == { x \in SqlEntries : x.folder = "a/" \/ x.base = 1 }

Bundles == UNION { [1..n -> BundleEntries] : n \in 0..MaxEntries }

EventKinds == {"pipeline_job", "job_without_artifact", "job_without_id", "not_a_job"}
Variants == {"index", "minimal_index"}

\* What the captured stderr of a failed Flyway run can hold, as far as the
\* two substring tests of execute_migrations can tell.
StderrKinds == {"other error", "Invalid argument: -x", "Invalid argument: -locations"}

VARIABLES
  variant,          \* which handler is deployed: index.py or minimal_index.py
  pc,               \* position of the running invocation; "idle" between invocations
  job_id,           \* handler's local job_id
  archive,          \* the zip the Bundle Loader read (kept by LoaderSpec only)
  migrations,       \* the list download_migration_files returned
  fs,               \* /tmp/migrations: version -> content of the .sql file, or NoFile
  flyway_installed, \* os.path.exists(FLYWAY_BINARY)
  ledger,           \* flyway_schema_history: version -> checksum, or NoFile
  schema,           \* schema objects present: <<version, content>> of applied scripts
  db_before,        \* ledger and schema when the invocation started
  stages,           \* the stage functions the handler called in this invocation
  runs,             \* the results of the subprocess.run calls of this invocation
  executed,         \* versions Flyway applied in this invocation, in order
  exec_result,      \* "not_called", "True" (returned) or "raised"
  e,                \* the exception the handler's except clause caught
  calls,            \* notifications to CodePipeline made in this invocation
  outcome,          \* how the invocation ended: statusCode returned, or the error raised
  rerun,            \* the pipeline delivers the previous invocation's script set again
  last_migrations,  \* on a rerun, the list the previous invocation's loader returned
  last_result       \* on a rerun, exec_result of the previous invocation

vars == <<variant, pc, job_id, archive, migrations, fs, flyway_installed, ledger,
          schema, db_before, stages, runs, executed, exec_result, e, calls, outcome,
          rerun, last_migrations, last_result>>

db_vars == <<ledger, schema>>
run_vars == <<runs, executed, exec_result>>
hist_vars == <<db_before, rerun, last_result>>

----------------------------------------------------------------------------
(* download_migration_files                                                *)

\* os.path.basename(file_info.filename): the folder is dropped.
Basename(file_info) == file_info.base

EndsWithSql(file_info) == file_info.suffix = ".sql"

AlwaysUnseen(filename, processed_files) == FALSE

\* "if filename in processed_files: continue"
AlreadyProcessed(filename, processed_files) == filename \in processed_files

\* The loop over zip_ref.infolist() from entry i on.  failAt is the entry whose
\* extraction raises (its content cannot be decoded or written); files written
\* before it stay in the directory.
RECURSIVE ExtractFrom(_, _, _, _, _, _)
ExtractFrom(zip, i, failAt, processed_files, migs, dir) ==
  IF i > Len(zip)
  THEN [raised |-> FALSE, migrations |-> migs, dir |-> dir]
  ELSE LET file_info == zip[i]
           filename == Basename(file_info)
       IN IF file_info.is_dir
          THEN ExtractFrom(zip, i + 1, failAt, processed_files, migs, dir)
          ELSE IF ~EndsWithSql(file_info)
          THEN ExtractFrom(zip, i + 1, failAt, processed_files, migs, dir)
          ELSE IF AlreadyProcessed(filename, processed_files)
          THEN ExtractFrom(zip, i + 1, failAt, processed_files, migs, dir)
          ELSE IF i = failAt
          THEN [raised |-> TRUE, migrations |-> <<>>, dir |-> dir]
          ELSE ExtractFrom(zip, i + 1, failAt,
                           processed_files \cup {filename},
                           Append(migs, [filename |-> filename,
                                         content |-> file_info.content]),
                           [dir EXCEPT ![filename] = file_info.content])

\* failAt = 0: s3_client.download_file raises, nothing is extracted.
\* failAt in 1..Len(zip): extracting that entry raises.  Larger: no failure.
\* os.makedirs(exist_ok=True) keeps whatever the directory already holds.
download_migration_files(dir, zip, failAt) ==
  IF failAt = 0
  THEN [raised |-> TRUE, migrations |-> <<>>, dir |-> dir]
  ELSE ExtractFrom(zip, 1, failAt, {}, <<>>, dir)

----------------------------------------------------------------------------
(* The external tool: "flyway migrate" over filesystem:/tmp/migrations     *)
(* with the configuration execute_migrations writes (validateOnMigrate,    *)
(* no flyway.group, no flyway.outOfOrder).                                  *)

Checksum(content) == IF content = "a" THEN "crc-a" ELSE "crc-b"

Resolved(dir) == { v \in Versions : dir[v] # NoFile }
Applied(led) == { v \in Versions : led[v] # NoFile }

Highest(S) == CHOOSE x \in S : \A y \in S : y <= x

\* flyway.validateOnMigrate=true: an applied script whose file changed, an
\* applied script whose file is gone (below the newest file), or a file older
\* than the newest applied script make the run fail before it changes anything.
ValidateOnMigrate(led, dir) ==
  /\ \A v \in Applied(led) \cap Resolved(dir) : led[v] = Checksum(dir[v])
  /\ \A v \in Applied(led) \ Resolved(dir) :
        Resolved(dir) = {} \/ v > Highest(Resolved(dir))
  /\ \A v \in Resolved(dir) \ Applied(led) :
        Applied(led) = {} \/ v > Highest(Applied(led))

Pending(led, dir) == Resolved(dir) \ Applied(led)

DescendingOrder(S) ==
  CHOOSE s \in [1..Cardinality(S) -> S] :
    \A i, j \in 1..Cardinality(S) : i < j => s[i] > s[j]

\* Flyway runs the pending scripts of the directory by ascending version.
ExecutionOrder(S) ==
  CHOOSE s \in [1..Cardinality(S) -> S] :
    \A i, j \in 1..Cardinality(S) : i < j => s[i] < s[j]

\* Each script runs in a transaction of its own (flyway.group is not set), which
\* also inserts its history row.
RECURSIVE ApplyScripts(_, _, _, _)
ApplyScripts(order, n, db, dir) ==
  IF n = 0 THEN db
  ELSE LET before == ApplyScripts(order, n - 1, db, dir)
           v == order[n]
       IN [ledger |-> [before.ledger EXCEPT ![v] = Checksum(dir[v])],
           schema |-> before.schema \cup {<<v, dir[v]>>}]

\* One run of the tool.  failAt = 0: the tool fails before it touches the
\* database (arguments rejected, no connection).  failAt = k: the k-th pending
\* script fails and is rolled back, the k-1 before it stay committed.  failAt
\* beyond the pending scripts: every pending script is applied.
FlywayMigrate(db, dir, failAt, stderr) ==
  LET order == ExecutionOrder(Pending(db.ledger, dir))
      n == IF failAt > Len(order) THEN Len(order) ELSE failAt - 1
  IN IF failAt = 0 \/ ~ValidateOnMigrate(db.ledger, dir)
     THEN [returncode |-> 1, stderr |-> stderr, db |-> db, applied |-> <<>>]
     ELSE [returncode |-> IF failAt > Len(order) THEN 0 ELSE 1,
           stderr |-> IF failAt > Len(order) THEN "" ELSE stderr,
           db |-> ApplyScripts(order, n, db, dir),
           applied |-> SubSeq(order, 1, n)]

----------------------------------------------------------------------------
(* execute_migrations                                                      *)

\* '"Invalid argument: -locations" in result.stderr'
HasInvalidLocations(stderr) == stderr = "Invalid argument: -locations"

\* '"Invalid argument" in result.stderr'
HasInvalidArgument(stderr) ==
  stderr \in {"Invalid argument: -x", "Invalid argument: -locations"}

RetryOnAnyFailure(result) == result.returncode # 0

\* Line 209: whether the second command format is tried.
TryOption2(result) ==
  result.returncode # 0 /\ HasInvalidLocations(result.stderr)

\* Line 215: whether the command without -locations is tried.
TryOption3(result) ==
  result.returncode # 0 /\ HasInvalidArgument(result.stderr)

ReturnCodeIgnored(result) == FALSE

\* Line 226: "if result.returncode != 0: raise".
MigrationFailed(result) == result.returncode # 0

\* Where execute_migrations goes after the subprocess.run call made at `at`.
AfterRun(at, result) ==
  IF at = "migrate1" /\ TryOption2(result) THEN "migrate2"
  ELSE IF at \in {"migrate1", "migrate2"} /\ TryOption3(result) THEN "migrate3"
  ELSE IF MigrationFailed(result) THEN "except"
  ELSE "report"

----------------------------------------------------------------------------
(* handler                                                                 *)

Init ==
  /\ variant \in Variants
  /\ pc = "idle"
  /\ job_id = NoJob
  /\ archive = <<>>
  /\ migrations = <<>>
  /\ fs = [v \in Versions |-> NoFile]
  /\ flyway_installed = FALSE
  /\ ledger = [v \in Versions |-> NoFile]
  /\ schema = {}
  /\ db_before = [ledger |-> ledger, schema |-> schema]
  /\ stages = <<>>
  /\ runs = <<>>
  /\ executed = <<>>
  /\ exec_result = "not_called"
  /\ e = "none"
  /\ calls = <<>>
  /\ outcome = "none"
  /\ rerun = FALSE
  /\ last_migrations = <<>>
  /\ last_result = "not_called"

\* What every invocation starts from: fresh locals, the database and /tmp as
\* the previous invocation left them.
Enter(again) ==
  /\ pc = "idle"
  /\ migrations' = <<>>
  /\ stages' = <<>>
  /\ runs' = <<>>
  /\ executed' = <<>>
  /\ exec_result' = "not_called"
  /\ calls' = <<>>
  /\ outcome' = "none"
  /\ db_before' = [ledger |-> ledger, schema |-> schema]
  /\ rerun' = again
  /\ last_migrations' = IF again THEN migrations ELSE <<>>
  /\ last_result' = IF again THEN exec_result ELSE "not_called"
  /\ UNCHANGED <<variant, archive, fs, flyway_installed, ledger, schema>>

SwallowError(raised, next) == next

\* A call inside the try block: an exception goes to the except clause.
Try(raised, next) == IF raised THEN "except" ELSE next

\* index.handler, lines 240-251 and 276-281.
Start(event, again) ==
  /\ variant = "index"
  /\ Enter(again)
  /\ CASE event = "not_a_job" ->
            /\ job_id' = NoJob /\ e' = "none"
            /\ pc' = "idle" /\ outcome' = "returned 400"
       [] event = "job_without_id" ->
            /\ job_id' = NoJob /\ e' = "KeyError" /\ pc' = "except"
       [] event = "job_without_artifact" ->
            /\ job_id' \in JobIds /\ e' = "KeyError" /\ pc' = "except"
       [] event = "pipeline_job" ->
            /\ job_id' \in JobIds /\ e' = "none" /\ pc' = "download"

\* index.handler, line 254: download_migration_files(bucket_name, object_key).
DownloadFiles(zip, failAt) ==
  /\ pc = "download"
  /\ LET r == download_migration_files(fs, zip, failAt)
     IN /\ fs' = r.dir
        /\ migrations' = r.migrations
        /\ pc' = Try(r.raised, "credentials")
        /\ stages' = Append(stages, "download_migration_files")
        /\ e' = IF r.raised THEN "Failed to download migration files" ELSE e
  /\ last_migrations' = <<>>
  /\ UNCHANGED <<variant, job_id, flyway_installed, db_vars, run_vars, calls,
                 outcome, hist_vars>>

Download(zip, failAt) == DownloadFiles(zip, failAt) /\ UNCHANGED archive

\* An archive that holds exactly the scripts of a list, in the list's order.
AsArchive(migs) ==
  [i \in 1..Len(migs) |->
     [folder |-> IF migs[i].content = "a" THEN "a/" ELSE "b/",
      base |-> migs[i].filename, suffix |-> ".sql", is_dir |-> FALSE,
      content |-> migs[i].content]]

\* What the artifact store holds when the handler fetches the bundle.
Delivered == IF rerun THEN {AsArchive(last_migrations)} ELSE Bundles

\* index.handler, line 262: get_database_credentials().
GetCredentials(raised) ==
  /\ pc = "credentials"
  /\ pc' = Try(raised, "setup")
  /\ stages' = Append(stages, "get_database_credentials")
  /\ e' = IF raised THEN "Failed to retrieve database credentials" ELSE e
  /\ UNCHANGED <<variant, job_id, archive, migrations, fs, flyway_installed,
                 db_vars, run_vars, calls, outcome, hist_vars, last_migrations>>

\* execute_migrations, lines 185-196: setup_flyway() and the flyway.conf file.
\* Flyway is downloaded only when its binary is not in /tmp yet; the download
\* may fail, and then execute_migrations raises.
SetupFlyway(raised) ==
  /\ pc = "setup"
  /\ raised => ~flyway_installed
  /\ flyway_installed' = (flyway_installed \/ ~raised)
  /\ pc' = Try(raised, "migrate1")
  /\ stages' = Append(stages, "execute_migrations")
  /\ e' = IF raised THEN "Failed to set up Flyway" ELSE e
  /\ exec_result' = IF raised THEN "raised" ELSE exec_result
  /\ UNCHANGED <<variant, job_id, archive, migrations, fs, db_vars, runs,
                 executed, calls, outcome, hist_vars, last_migrations>>

\* execute_migrations, lines 204-230: one subprocess.run of "flyway migrate"
\* (at "migrate1" with "-locations <dir>", at "migrate2" with "-locations=<dir>",
\* at "migrate3" with the conf file only) and the tests that follow it.
Migrate(at, failAt, stderr) ==
  /\ at \in {"migrate1", "migrate2", "migrate3"}
  /\ pc = at
  /\ LET result == FlywayMigrate([ledger |-> ledger, schema |-> schema], fs,
                                 failAt, stderr)
         next == AfterRun(at, result)
     IN /\ ledger' = result.db.ledger
        /\ schema' = result.db.schema
        /\ runs' = Append(runs, [cmd |-> at, returncode |-> result.returncode,
                                 stderr |-> result.stderr])
        /\ executed' = executed \o result.applied
        /\ pc' = next
        /\ exec_result' = CASE next = "except" -> "raised"
                            [] next = "report" -> "True"
                            [] OTHER -> exec_result
        /\ e' = IF next = "except" THEN "Flyway migration failed" ELSE e
  /\ UNCHANGED <<variant, job_id, archive, migrations, fs, flyway_installed,
                 stages, calls, outcome, hist_vars, last_migrations>>

\* index.handler, lines 270-275, and minimal_index.handler, lines 33-38:
\* put_job_success_result inside the try block, then the normal return.
ReportSuccess(raised) ==
  /\ pc = "report"
  /\ calls' = Append(calls, [call |-> "put_job_success_result", raised |-> raised])
  /\ pc' = Try(raised, "idle")
  /\ e' = IF raised THEN "put_job_success_result failed" ELSE e
  /\ outcome' = IF Try(raised, "idle") = "idle" THEN "returned 200" ELSE outcome
  /\ UNCHANGED <<variant, job_id, archive, migrations, fs, flyway_installed,
                 db_vars, stages, run_vars, hist_vars, last_migrations>>

\* index.handler, lines 283-300, and minimal_index.handler, lines 43-57: the
\* except clause.  put_job_failure_result is called when job_id is set (job ids
\* of CodePipeline are never empty); an exception it raises leaves the clause
\* in place of e.
Except(raised) ==
  /\ pc = "except"
  /\ raised => job_id # NoJob
  /\ calls' = IF job_id # NoJob
              THEN Append(calls, [call |-> "put_job_failure_result",
                                  raised |-> raised])
              ELSE calls
  /\ outcome' = IF raised THEN "raised: put_job_failure_result failed"
                ELSE "raised: " \o e
  /\ pc' = "idle"
  /\ UNCHANGED <<variant, job_id, archive, migrations, fs, flyway_installed,
                 db_vars, stages, run_vars, e, hist_vars, last_migrations>>

\* minimal_index.handler, lines 26-41.
MinimalStart(event) ==
  /\ variant = "minimal_index"
  /\ Enter(FALSE)
  /\ CASE event = "not_a_job" ->
            /\ job_id' = NoJob /\ e' = "Invalid event format" /\ pc' = "except"
       [] event = "job_without_id" ->
            /\ job_id' = NoJob /\ e' = "KeyError" /\ pc' = "except"
       [] OTHER ->
            /\ job_id' \in JobIds /\ e' = "none" /\ pc' = "report"

\* The runtime is replaced between two invocations: /tmp starts empty.
ColdStart ==
  /\ pc = "idle"
  /\ fs' = [v \in Versions |-> NoFile]
  /\ flyway_installed' = FALSE
  /\ UNCHANGED <<variant, pc, job_id, archive, migrations, db_vars, stages,
                 run_vars, e, calls, outcome, hist_vars, last_migrations>>

Next ==
  \/ \E event \in EventKinds, again \in BOOLEAN : Start(event, again)
  \/ /\ pc = "download"
     /\ \E zip \in Delivered, failAt \in 0..(MaxEntries + 1) : Download(zip, failAt)
  \/ \E raised \in BOOLEAN : GetCredentials(raised)
  \/ \E raised \in BOOLEAN : SetupFlyway(raised)
  \/ \E failAt \in 0..(MaxVersion + 1), stderr \in StderrKinds :
        Migrate(pc, failAt, stderr)
  \/ \E raised \in BOOLEAN : ReportSuccess(raised)
  \/ \E raised \in BOOLEAN : Except(raised)
  \/ \E event \in EventKinds : MinimalStart(event)
  \/ ColdStart

Spec == Init /\ [][Next]_vars

----------------------------------------------------------------------------------------------------------------------------------------
(* One invocation of index.handler from line 254 on, for every archive and  *)
(* every content earlier invocations can have left in the migrations        *)
(* directory.                                                               *)

LoaderInit ==
  /\ variant = "index"
  /\ pc = "download"
  /\ job_id \in JobIds
  /\ archive = <<>>
  /\ migrations = <<>>
  /\ fs \in [Versions -> Contents \cup {NoFile}]
  /\ flyway_installed = FALSE
  /\ ledger = [v \in Versions |-> NoFile]
  /\ schema = {}
  /\ db_before = [ledger |-> ledger, schema |-> schema]
  /\ stages = <<>>
  /\ runs = <<>>
  /\ executed = <<>>
  /\ exec_result = "not_called"
  /\ e = "none"
  /\ calls = <<>>
  /\ outcome = "none"
  /\ rerun = FALSE
  /\ last_migrations = <<>>
  /\ last_result = "not_called"

\* Line 254, the archive read being recorded.
Load(zip, failAt) ==
  /\ DownloadFiles(zip, failAt)
  /\ archive' = zip

LoaderNext ==
  \/ /\ pc = "download"
     /\ \E zip \in Archives, failAt \in 0..(MaxEntries + 1) : Load(zip, failAt)
  \/ \E raised \in BOOLEAN : GetCredentials(raised)
  \/ \E raised \in BOOLEAN : SetupFlyway(raised)
  \/ \E failAt \in 0..(MaxVersion + 1), stderr \in StderrKinds :
        Migrate(pc, failAt, stderr)
  \/ \E raised \in BOOLEAN : ReportSuccess(raised)
  \/ \E raised \in BOOLEAN : Except(raised)

LoaderSpec == LoaderInit /\ [][LoaderNext]_vars

----------------------------------------------------------------------------
(* Properties                                                              *)

Executing == pc \in {"setup", "migrate1", "migrate2", "migrate3"}

DatabaseUnchanged ==
  ledger = db_before.ledger /\ schema = db_before.schema

Called(name) == \E i \in 1..Len(calls) : calls[i].call = name

Delivered_(name) ==
  \E i \in 1..Len(calls) : calls[i].call = name /\ ~calls[i].raised

Failed_(name) ==
  \E i \in 1..Len(calls) : calls[i].call = name /\ calls[i].raised

\* Position of a filename in the list the Bundle Loader returned (0: not in it).
Position(filename) ==
  IF \E i \in 1..Len(migrations) : migrations[i].filename = filename
  THEN CHOOSE i \in 1..Len(migrations) : migrations[i].filename = filename
  ELSE 0

\* The first archive entry the loader would extract under a filename (0: none).
FirstSeen(filename) ==
  LET hits == { i \in 1..Len(archive) :
                  /\ ~archive[i].is_dir
                  /\ archive[i].suffix = ".sql"
                  /\ archive[i].base = filename }
  IN IF hits = {} THEN 0 ELSE CHOOSE i \in hits : \A j \in hits : i <= j

\* C1 (as claimed): when execute_migrations fails, the Ledger and the schema
\* are equal to their state before the Run: no script of the Run is reflected
\* in either, the scripts that ran before the failing one included.
C1_Atomicity ==
  exec_result = "raised" => DatabaseUnchanged

Loaded ==
  /\ stages # <<>>
  /\ e # "Failed to download migration files"

\* C4: the list download_migration_files returns holds each filename at most
\* once; a filename that several archive entries share is kept once, with the
\* content of the first of them, in the list and in the migrations directory;
\* a script of the list that Flyway then applies is applied with that content.
C4_Deduplication ==
  Loaded =>
     /\ \A i, j \in 1..Len(migrations) :
          migrations[i].filename = migrations[j].filename => i = j
     /\ \A i \in 1..Len(migrations) :
          LET k == FirstSeen(migrations[i].filename)
          IN /\ k > 0
             /\ migrations[i].content = archive[k].content
             /\ fs[migrations[i].filename] = archive[k].content
     /\ \A v \in Versions : FirstSeen(v) > 0 => Position(v) > 0
     /\ \A i \in 1..Len(executed) :
          Position(executed[i]) > 0 =>
             <<executed[i], archive[FirstSeen(executed[i])].content>> \in schema

C4_Witness ==
  /\ Loaded /\ pc = "report"
  /\ Len(archive) = 2 /\ Len(migrations) = 1
  /\ executed = <<archive[1].base>>
  /\ archive[1].base = archive[2].base
  /\ archive[1].content = "a" /\ archive[2].content = "b"
  /\ migrations[1].content = "a"
  /\ fs[archive[1].base] = "a"

\* C5 (as claimed): when the migrations were applied and the success
\* notification fails, the handler sends no failure notification and the
\* invocation does not end with an error.
C5_ReportingFailureSwallowed ==
  (pc = "idle" /\ exec_result = "True" /\ Failed_("put_job_success_result")) =>
     (~Called("put_job_failure_result") /\ outcome = "returned 200")

\* C6 (as claimed): an invocation that met a fatal error with the job
\* identifier known has called put_job_failure_result and ends by raising that
\* same error, also when the failure notification itself failed.
C6_OriginalErrorPropagates ==
  (pc = "idle" /\ outcome # "none" /\ e # "none" /\ job_id # NoJob) =>
     (Called("put_job_failure_result") /\ outcome = "raised: " \o e)

\* C7 (as claimed): every invocation ends with a success notification and a
\* normal return, or with a failure notification and a raised error, and never
\* with both notifications.
C7_TwoOutcomes ==
  (pc = "idle" /\ outcome # "none") =>
     \/ /\ outcome = "returned 200"
        /\ Delivered_("put_job_success_result")
        /\ ~Called("put_job_failure_result")
     \/ /\ outcome \notin {"returned 200", "returned 400"}
        /\ Delivered_("put_job_failure_result")
        /\ ~Delivered_("put_job_success_result")

StageErrors ==
  {"Failed to download migration files", "Failed to retrieve database credentials"}

\* C8: when the bundle stage or the credential stage fails, execute_migrations
\* is not called in that invocation, no Flyway run is made, no success
\* notification is attempted, no stage function is called twice, and once the
\* invocation has ended put_job_failure_result has been called (the job
\* identifier is known before either stage starts).
C8_StageFailureAborts ==
  e \in StageErrors =>
     /\ "execute_migrations" \notin { stages[i] : i \in 1..Len(stages) }
     /\ runs = <<>> /\ exec_result = "not_called"
     /\ ~Called("put_job_success_result")
     /\ \A i, j \in 1..Len(stages) : stages[i] = stages[j] => i = j
     /\ job_id # NoJob
     /\ pc = "idle" => Called("put_job_failure_result")
     /\ pc \in {"except", "idle"}

C8_Witness ==
  /\ pc = "idle"
  /\ e = "Failed to retrieve database credentials"
  /\ stages = <<"download_migration_files", "get_database_credentials">>
  /\ Called("put_job_failure_result")

\* C9 (as claimed): execute_migrations runs the migration tool at most once in
\* an invocation.
C9_SingleAttempt ==
  Len(runs) <= 1

\* C9 (amended): execute_migrations runs the migration tool at most three
\* times in an invocation; a run is followed by another only when it failed
\* with "Invalid argument" in its error output (and by the second command
\* format only with "Invalid argument: -locations"); the result of the last run
\* decides: True on return code 0, an exception otherwise.
C9_RetryOnlyOnInvalidArgument ==
  /\ Len(runs) <= 3
  /\ \A i \in 1..Len(runs) :
       i < Len(runs) =>
          /\ runs[i].returncode # 0
          /\ HasInvalidArgument(runs[i].stderr)
          /\ runs[i + 1].cmd = "migrate2" => HasInvalidLocations(runs[i].stderr)
  /\ \A i, j \in 1..Len(runs) : runs[i].cmd = runs[j].cmd => i = j
  /\ (exec_result = "True") => (runs # <<>> /\ runs[Len(runs)].returncode = 0)
  /\ (exec_result = "raised" /\ runs # <<>>) =>
        /\ runs[Len(runs)].returncode # 0
        /\ (runs[Len(runs)].cmd # "migrate3" =>
               ~HasInvalidArgument(runs[Len(runs)].stderr))

C9_Witness ==
  /\ Len(runs) = 3
  /\ runs[1].stderr = "Invalid argument: -locations"
  /\ runs[2].stderr = "Invalid argument: -x"
  /\ exec_result = "True"

\* C10 (as claimed): the .sql files in the directory handed to Flyway are
\* exactly the files of the list download_migration_files returned in this
\* invocation, with that list's content.
C10_OnlyCurrentBundle ==
  Executing =>
     \A v \in Versions :
        fs[v] = IF Position(v) > 0 THEN migrations[Position(v)].content ELSE NoFile
====
